---- MODULE Spec2Model ----
(***************************************************************************)
(* Model of the shop application: the category tree (shop/models.py        *)
(* Category), the cart engine (Cart, CartProduct, User.cart) and the       *)
(* checkout view (shop/views.py cache_payment).                            *)
(***************************************************************************)
EXTENDS Integers, Sequences, FiniteSets, Bags, TLC

VARIABLES
    \* ---- category tree (shop_category table) ----
    cparent,               \* node -> parent node, 0 for a root (the tree shape)
    is_public,             \* node -> Category.is_public
    ancestors_are_public,  \* node -> Category.ancestors_are_public
    pending,               \* node whose set_ancestors_are_public() call is due, or 0
    clast,                 \* the last completed category operation
    slug,                  \* node -> Category.slug
    scache,                \* the cache: node -> cached full slug, or NoSlug
    sres,                  \* the last full_slug call and what it returned
    \* ---- product images (shop_productimages table) ----
    images,                \* sequence of image rows; the id is the index
    ilast,                 \* the last completed image operation
    idel,                  \* the ProductImages.delete() call in progress, if any
    iseen,                 \* what the last reader of an image list saw
    \* ---- products (shop_product table) and addresses (users_address table) ----
    products,              \* sequence of Product slugs; the id is the index
    pres,                  \* the last product_view request and its outcome
    addresses,             \* sequence of Address rows; the id is the index
    alast,                 \* the last completed address request
    \* ---- cart engine (shop_cart, shop_cartproduct, shop_order tables) ----
    carts,                 \* sequence of Cart rows [owner, status]; the id is the index
    lines,                 \* bag of CartProduct rows [cart, product, quantity]
    orders,                \* bag of Order rows [customer, cart]
    inst,                  \* the Cart instance the current caller holds
    last,                  \* the last completed cart call
    prev,                  \* what the claims need of the call before `last`
    \* ---- requests served concurrently ----
    reqs,                  \* request slot -> the request running in it
    started                \* number of requests started so far

slugVars == <<slug, scache, sres>>

imgVars == <<images, ilast>>

\* state of the views that are neither category nor cart operations
viewVars == <<idel, iseen, products, pres, addresses, alast>>

\* the catalogue: categories with their slugs, and product images
catVars == <<cparent, is_public, ancestors_are_public, pending, clast,
             slugVars, imgVars, viewVars>>

dbVars == <<carts, lines, orders>>

cartVars == <<carts, lines, orders, inst, last, prev, reqs, started, viewVars>>

seqVars == <<inst, last, prev>>

vars == <<cparent, is_public, ancestors_are_public, pending, clast,
          slug, scache, sres, images, ilast, idel, iseen,
          products, pres, addresses, alast,
          carts, lines, orders, inst, last, prev, reqs, started>>

(***************************************************************************)
(* Category tree                                                           *)
(***************************************************************************)
MaxNodes == 4

Nodes == 1..MaxNodes

\* Forests over Nodes: a node's parent has a smaller id (insertion order).
TreeShapes == {f \in [Nodes -> 0..MaxNodes] : \A n \in Nodes : f[n] < n}

\* MP_Node.path: the materialized path, one step per level (root first).
RECURSIVE path(_)
path(n) == IF cparent[n] = 0 THEN <<n>> ELSE Append(path(cparent[n]), n)

\* MP_Node.depth
depth(n) == Len(path(n))

is_root(n) == depth(n) = 1

\* the startswith lookup on path strings of fixed step length
startswith(s, prefix) ==
    /\ Len(prefix) <= Len(s)
    /\ SubSeq(s, 1, Len(prefix)) = prefix

\* path__rstartswith=OuterRef("path"): the outer path starts with the row's path
rstartswith(rowpath, outerpath) == startswith(outerpath, rowpath)

is_leaf(n) == ~ \E m \in Nodes : cparent[m] = n

\* Category.get_descendants_and_self = MP_Node.get_tree(self)
get_descendants_and_self(n) ==
    IF is_leaf(n) THEN {n}
    ELSE {m \in Nodes : startswith(path(m), path(n)) /\ depth(m) >= depth(n)}

\* a plausible slip: depth__lte instead of depth__lt (the node counts itself)
included_in_non_public_subtree_lte(outer) ==
    {r \in Nodes : /\ is_public[r] = FALSE
                   /\ rstartswith(path(r), path(outer))
                   /\ depth(r) <= depth(outer)}

\* the subquery of set_ancestors_are_public, for the outer row `outer`
included_in_non_public_subtree(outer) ==
    {r \in Nodes : /\ is_public[r] = FALSE
                   /\ rstartswith(path(r), path(outer))
                   /\ depth(r) < depth(outer)}

\* Category.save() for a node whose is_public field was set to v: the row is
\* written; nothing else is recomputed by save itself.
CategorySave(n, v) ==
    /\ pending = 0
    /\ is_public' = [is_public EXCEPT ![n] = v]
    /\ pending' = n
    /\ clast' = [op |-> "save", node |-> n, value |-> v]
    /\ UNCHANGED <<cparent, ancestors_are_public, slugVars, imgVars, cartVars>>

\* the UPDATE of set_ancestors_are_public over the subtree of n, on the flags aap
subtree_update(aap, n) ==
    [m \in Nodes |->
        IF m \in get_descendants_and_self(n)
        THEN included_in_non_public_subtree(m) = {}
        ELSE aap[m]]

\* Category.set_ancestors_are_public(): one UPDATE over the subtree of n
set_ancestors_are_public(n) ==
    /\ ancestors_are_public' = subtree_update(ancestors_are_public, n)
    /\ UNCHANGED <<cparent, is_public>>

\* the caller's n.set_ancestors_are_public() after a toggle of n
SetAncestorsArePublic ==
    /\ pending # 0
    /\ set_ancestors_are_public(pending)
    /\ pending' = 0
    /\ clast' = [op |-> "set_ancestors_are_public", node |-> pending,
                 value |-> is_public[pending]]
    /\ UNCHANGED <<slugVars, imgVars, cartVars>>

\* Category.get_root_nodes()
get_root_nodes == {n \in Nodes : is_root(n)}

\* the loop of fix_tree over the root nodes, in path order, on the flags aap:
\* a root stored FALSE is set TRUE and saved (save recomputes nothing below
\* it), any other root gets set_ancestors_are_public()
RECURSIVE fix_roots(_, _)
fix_roots(roots, aap) ==
    IF roots = {} THEN aap
    ELSE LET node == CHOOSE r \in roots : \A o \in roots : r <= o
             aap2 == IF ~aap[node]
                     THEN [aap EXCEPT ![node] = TRUE]
                     ELSE subtree_update(aap, node)
         IN  fix_roots(roots \ {node}, aap2)

\* Category.fix_tree(): treebeard's repair leaves a sound tree as it is, then
\* the flags of every root are dealt with
FixTree ==
    /\ pending = 0
    /\ ancestors_are_public' = fix_roots(get_root_nodes, ancestors_are_public)
    /\ clast' = [op |-> "fix_tree", node |-> 0, value |-> TRUE]
    /\ UNCHANGED <<cparent, is_public, pending, slugVars, imgVars, cartVars>>

\* any stored combination of flags over any forest
FixInit0 ==
    /\ cparent \in TreeShapes
    /\ is_public \in [Nodes -> BOOLEAN]
    /\ ancestors_are_public \in [Nodes -> BOOLEAN]
    /\ pending = 0
    /\ clast = [op |-> "none", node |-> 0, value |-> TRUE]

FixNext == FixTree

CatInit0 ==
    /\ cparent \in TreeShapes
    /\ is_public = [n \in Nodes |-> TRUE]
    /\ ancestors_are_public = [n \in Nodes |-> TRUE]
    /\ pending = 0
    /\ clast = [op |-> "none", node |-> 0, value |-> TRUE]

CatNext ==
    \/ \E n \in Nodes, v \in BOOLEAN : CategorySave(n, v)
    \/ SetAncestorsArePublic

(***************************************************************************)
(* Category slugs                                                          *)
(***************************************************************************)
\* a full slug is the sequence of its pieces; NoSlug is a cache miss (None)
NoSlug == <<>>

Letters == <<"a", "b", "c", "d", "e", "f", "g", "h">>

EmptyCache == [n \in Nodes |-> NoSlug]

\* an entry written before the category was renamed or moved
StaleCache == [n \in Nodes |-> <<"x">>]

NoSres == [op |-> "none", node |-> 0, value |-> NoSlug, cold |-> FALSE]

\* a plausible slip: the own slug in front of the parent's
join_slug_reversed(parent_slug, own) == <<own, "/">> \o parent_slug

\* "%s%s%s" % (parent_slug, self._slug_separator, self.slug)
join_slug(parent_slug, own) == parent_slug \o <<"/", own>>

\* a plausible slip: the cache is written but never consulted
RECURSIVE get_full_slug_uncached(_, _)
get_full_slug_uncached(n, cache) ==
    IF is_root(n) THEN [value |-> <<slug[n]>>, cache |-> cache]
    ELSE LET pr == get_full_slug_uncached(cparent[n], cache)
             full_slug == join_slug(pr.value, slug[n])
         IN  [value |-> full_slug, cache |-> [pr.cache EXCEPT ![n] = full_slug]]

\* Category.get_full_slug() of node n with the cache as it is: the value
\* returned and the cache afterwards (parent_slug is not passed)
RECURSIVE get_full_slug(_, _)
get_full_slug(n, cache) ==
    IF is_root(n) THEN [value |-> <<slug[n]>>, cache |-> cache]
    ELSE IF cache[n] # NoSlug THEN [value |-> cache[n], cache |-> cache]
    ELSE LET pr == get_full_slug(cparent[n], cache)
             full_slug == join_slug(pr.value, slug[n])
         IN  [value |-> full_slug, cache |-> [pr.cache EXCEPT ![n] = full_slug]]

\* Category.full_slug read on node n
FullSlug(n) ==
    /\ LET r == get_full_slug(n, scache)
       IN  /\ scache' = r.cache
           /\ sres' = [op |-> "full_slug", node |-> n, value |-> r.value,
                       cold |-> (scache = EmptyCache)]
    /\ UNCHANGED <<cparent, is_public, ancestors_are_public, pending, clast,
                   slug, imgVars, cartVars>>

\* the cache entries expire
CacheClear ==
    /\ scache # EmptyCache
    /\ scache' = EmptyCache
    /\ sres' = NoSres
    /\ UNCHANGED <<cparent, is_public, ancestors_are_public, pending, clast,
                   slug, imgVars, cartVars>>

\* the slug a category is renamed to
NewSlugs == {"z"}

\* Category.save() of node n with its slug changed to s: the row is written,
\* the cache is not touched; the caller's set_ancestors_are_public() is due
SlugSave(n, s) ==
    /\ pending = 0
    /\ slug[n] # s
    /\ slug' = [slug EXCEPT ![n] = s]
    /\ sres' = NoSres
    /\ pending' = n
    /\ clast' = [op |-> "save", node |-> n, value |-> is_public[n]]
    /\ UNCHANGED <<cparent, is_public, ancestors_are_public, scache,
                   imgVars, cartVars>>

\* the operations of the program on categories whose slugs are read
StaleNext ==
    \/ \E n \in Nodes : FullSlug(n)
    \/ \E n \in Nodes, s \in NewSlugs : SlugSave(n, s)
    \/ SetAncestorsArePublic
    \/ FixTree

SlugIdle ==
    /\ slug = [n \in Nodes |-> Letters[n]]
    /\ scache = EmptyCache
    /\ sres = NoSres

\* slugs all different or all the same, the cache empty or holding old entries
SlugInit0 ==
    /\ slug \in {[n \in Nodes |-> Letters[n]], [n \in Nodes |-> "a"]}
    /\ scache \in {EmptyCache, StaleCache}
    /\ sres = NoSres

SlugNext ==
    \/ \E n \in Nodes : FullSlug(n)
    \/ CacheClear

(***************************************************************************)
(* Product images                                                          *)
(***************************************************************************)
MaxImages == 3

ImgProducts == {1, 2}

\* the display_order values images are created with (the default is 0)
InsertOrders == {0, 1, 2}

DeletedImage == [product |-> 0, display_order |-> 0, live |-> FALSE]

\* product.images.all(): the ids of the stored images of product p
product_images(imgs, p) ==
    {i \in DOMAIN imgs : imgs[i].live /\ imgs[i].product = p}

\* a plausible slip: the list is not ordered by display_order
EnumerationsUnordered(imgs, S) ==
    {f \in [S -> 0..(Cardinality(S) - 1)] : \A a, b \in S : a # b => f[a] # f[b]}

\* the positions enumerate() can give the images in S when they are listed
\* by Meta.ordering = ["display_order"]; images with equal display_order
\* come in any order
Enumerations(imgs, S) ==
    {f \in [S -> 0..(Cardinality(S) - 1)] :
        /\ \A a, b \in S : a # b => f[a] # f[b]
        /\ \A a, b \in S :
              imgs[a].display_order < imgs[b].display_order => f[a] < f[b]}

\* a plausible slip: enumerate(..., 1)
new_display_order_from_one(idx) == idx + 1

\* image.display_order = idx
new_display_order(idx) == idx

\* an image is created for product p with display_order k
ImageInsert(p, k) ==
    /\ Len(images) < MaxImages
    /\ images' = Append(images, [product |-> p, display_order |-> k, live |-> TRUE])
    /\ ilast' = [op |-> "insert", id |-> Len(images) + 1, product |-> p]
    /\ UNCHANGED <<cparent, is_public, ancestors_are_public, pending, clast,
                   slugVars, cartVars>>

\* ProductImages.delete() on image i: the row is deleted, then the remaining
\* images of its product are renumbered in listing order
ImageDelete(i) ==
    /\ i \in DOMAIN images
    /\ images[i].live
    /\ LET p == images[i].product
           S == product_images(images, p) \ {i}
       IN  /\ \E f \in Enumerations(images, S) :
                 images' = [j \in DOMAIN images |->
                              IF j = i THEN DeletedImage
                              ELSE IF j \in S
                              THEN [images[j] EXCEPT
                                      !.display_order = new_display_order(f[j])]
                              ELSE images[j]]
           /\ ilast' = [op |-> "delete", id |-> i, product |-> p]
    /\ UNCHANGED <<cparent, is_public, ancestors_are_public, pending, clast,
                   slugVars, cartVars>>

ImgIdle ==
    /\ images = <<>>
    /\ ilast = [op |-> "none", id |-> 0, product |-> 0]

ImgNext ==
    \/ \E p \in ImgProducts, k \in InsertOrders : ImageInsert(p, k)
    \/ \E i \in 1..MaxImages : ImageDelete(i)

(***************************************************************************)
(* Product images: delete() step by step, with readers                     *)
(***************************************************************************)
NoDelete == [id |-> 0, product |-> 0, f |-> <<>>, k |-> 0, clean |-> FALSE]

NoSeen == [op |-> "none", product |-> 0, orders |-> {}, n |-> 0,
           during |-> FALSE, clean |-> FALSE]

\* the display_order values of the stored images of product p in imgs
stored_orders(imgs, p) == {imgs[i].display_order : i \in product_images(imgs, p)}

\* ProductImages.delete(): super().delete() removes the row, and the list
\* self.product.images.all() is read for the loop
DeleteStart(i) ==
    /\ idel = NoDelete
    /\ i \in DOMAIN images
    /\ images[i].live
    /\ LET p == images[i].product
           S == product_images(images, p) \ {i}
           was_clean == stored_orders(images, p)
                           = 0..(Cardinality(product_images(images, p)) - 1)
       IN  /\ images' = [images EXCEPT ![i] = DeletedImage]
           /\ IF S = {}
              THEN /\ idel' = NoDelete
                   /\ ilast' = [op |-> "delete", id |-> i, product |-> p]
              ELSE /\ \E f \in Enumerations(images, S) :
                         idel' = [id |-> i, product |-> p, f |-> f, k |-> 0,
                                  clean |-> was_clean]
                   /\ ilast' = ilast
    /\ UNCHANGED <<cparent, is_public, ancestors_are_public, pending, clast,
                   slugVars, iseen, products, pres, addresses, alast,
                   carts, lines, orders, inst, last, prev, reqs, started>>

\* one turn of the loop: image.display_order = idx; image.save()
DeleteSave ==
    /\ idel # NoDelete
    /\ LET j == CHOOSE x \in DOMAIN idel.f : idel.f[x] = idel.k
       IN  images' = [images EXCEPT ![j] =
                         [product |-> idel.product,
                          display_order |-> new_display_order(idel.k),
                          live |-> TRUE]]
    /\ IF idel.k + 1 = Cardinality(DOMAIN idel.f)
       THEN /\ idel' = NoDelete
            /\ ilast' = [op |-> "delete", id |-> idel.id, product |-> idel.product]
       ELSE /\ idel' = [idel EXCEPT !.k = idel.k + 1]
            /\ ilast' = ilast
    /\ UNCHANGED <<cparent, is_public, ancestors_are_public, pending, clast,
                   slugVars, iseen, products, pres, addresses, alast,
                   carts, lines, orders, inst, last, prev, reqs, started>>

\* another request lists the images of product p (Product.get_all_images)
ReadImages(p) ==
    /\ iseen' = [op |-> "read", product |-> p,
                 orders |-> stored_orders(images, p),
                 n |-> Cardinality(product_images(images, p)),
                 during |-> (idel # NoDelete /\ idel.product = p),
                 clean |-> idel.clean]
    /\ UNCHANGED <<cparent, is_public, ancestors_are_public, pending, clast,
                   slugVars, imgVars, idel, products, pres, addresses, alast,
                   carts, lines, orders, inst, last, prev, reqs, started>>

\* images are created while no delete() is running
ImageInsertIdle(p, k) == idel = NoDelete /\ ImageInsert(p, k)

ImgConcNext ==
    \/ \E p \in ImgProducts, k \in InsertOrders : ImageInsertIdle(p, k)
    \/ \E i \in 1..MaxImages : DeleteStart(i)
    \/ DeleteSave
    \/ \E p \in ImgProducts : ReadImages(p)

(***************************************************************************)
(* Addresses                                                               *)
(***************************************************************************)
MaxAddresses == 2

AddrUsers == {1, 2}

AddrData == {"d1", "d2"}

DeletedAddress == [user |-> 0, data |-> "", live |-> FALSE]

NoAddrCall == [op |-> "none", user |-> 0, id |-> 0, err |-> "none"]

AddressFrame ==
    UNCHANGED <<cparent, is_public, ancestors_are_public, pending, clast,
                slugVars, imgVars, idel, iseen, products, pres,
                carts, lines, orders, inst, last, prev, reqs, started>>

\* a plausible variant: the update looks the address up among the user's own
address_get_own(as, u, id) ==
    IF id \in DOMAIN as /\ as[id].live /\ as[id].user = u THEN id ELSE 0

\* Address.objects.get(id=address_id) in add_address: the id found, 0 when
\* there is no such row; the requesting user u is not part of the lookup
address_get(as, u, id) ==
    IF id \in DOMAIN as /\ as[id].live THEN id ELSE 0

\* address_view with GET and a pk: Address.objects.get(id=pk), shown to u
AddressRead(u, id) ==
    /\ alast' = [op |-> "address_view", user |-> u, id |-> id,
                 err |-> IF id \in DOMAIN addresses /\ addresses[id].live
                         THEN "none" ELSE "DoesNotExist"]
    /\ UNCHANGED addresses
    /\ AddressFrame

\* address_view with POST, or add_address without _method: a new address of u
AddressCreate(u, d) ==
    /\ Len(addresses) < MaxAddresses
    /\ addresses' = Append(addresses, [user |-> u, data |-> d, live |-> TRUE])
    /\ alast' = [op |-> "create", user |-> u, id |-> Len(addresses) + 1,
                 err |-> "none"]
    /\ AddressFrame

\* add_address with _method set: the address with the posted id is rewritten
AddressUpdate(u, id, d) ==
    /\ LET found == address_get(addresses, u, id)
       IN  IF found = 0
           THEN /\ addresses' = addresses
                /\ alast' = [op |-> "update", user |-> u, id |-> id,
                             err |-> "DoesNotExist"]
           ELSE /\ addresses' = [addresses EXCEPT ![found].data = d]
                /\ alast' = [op |-> "update", user |-> u, id |-> id, err |-> "none"]
    /\ AddressFrame

\* delete_address: Address.objects.filter(id=pk, user=request.user).delete()
AddressDelete(u, id) ==
    /\ addresses' = [i \in DOMAIN addresses |->
                        IF i = id /\ addresses[i].live /\ addresses[i].user = u
                        THEN DeletedAddress ELSE addresses[i]]
    /\ alast' = [op |-> "delete", user |-> u, id |-> id, err |-> "none"]
    /\ AddressFrame

AddressIdle ==
    /\ addresses = <<>>
    /\ alast = NoAddrCall

AddressNext ==
    \/ \E u \in AddrUsers, id \in 1..MaxAddresses : AddressRead(u, id)
    \/ \E u \in AddrUsers, d \in AddrData : AddressCreate(u, d)
    \/ \E u \in AddrUsers, id \in 1..MaxAddresses, d \in AddrData :
          AddressUpdate(u, id, d)
    \/ \E u \in AddrUsers, id \in 1..MaxAddresses : AddressDelete(u, id)

(***************************************************************************)
(* Product lookup                                                          *)
(***************************************************************************)
MaxProducts == 3

Slugs == {"s", "t", "u"}

NoPres == [op |-> "none", slug |-> "", ret |-> 0, err |-> "none"]

\* Product.objects.filter(slug=sl): the ids of the products with that slug
products_with_slug(ps, sl) == {i \in DOMAIN ps : ps[i] = sl}

\* a plausible variant: .filter(slug=sl).order_by("id").first()
product_get_first(ps, sl) ==
    LET found == products_with_slug(ps, sl)
    IN  IF found = {} THEN [id |-> 0, err |-> "DoesNotExist"]
        ELSE [id |-> CHOOSE i \in found : \A j \in found : i <= j, err |-> "none"]

\* Product.objects.get(slug=sl)
product_get(ps, sl) ==
    LET found == products_with_slug(ps, sl)
    IN  IF found = {} THEN [id |-> 0, err |-> "DoesNotExist"]
        ELSE IF Cardinality(found) > 1
        THEN [id |-> 0, err |-> "MultipleObjectsReturned"]
        ELSE [id |-> CHOOSE i \in found : TRUE, err |-> "none"]

ProductFrame ==
    UNCHANGED <<cparent, is_public, ancestors_are_public, pending, clast,
                slugVars, imgVars, idel, iseen, addresses, alast,
                carts, lines, orders, inst, last, prev, reqs, started>>

\* a product is stored with slug sl (slug is declared unique=False)
ProductCreate(sl) ==
    /\ Len(products) < MaxProducts
    /\ products' = Append(products, sl)
    /\ pres' = NoPres
    /\ ProductFrame

\* the product_view view for slug sl, up to the lookup that decides its outcome
ProductView(sl) ==
    /\ LET r == product_get(products, sl)
       IN  pres' = [op |-> "product_view", slug |-> sl, ret |-> r.id, err |-> r.err]
    /\ UNCHANGED products
    /\ ProductFrame

ProductIdle ==
    /\ products = <<>>
    /\ pres = NoPres

ProductNext ==
    \/ \E sl \in Slugs : ProductCreate(sl)
    \/ \E sl \in Slugs : ProductView(sl)

(***************************************************************************)
(* Cart engine                                                             *)
(***************************************************************************)
MaxCarts == 2
MaxLines == 2

Users == {1}
Products == {1, 2}
Quantities == {1, 2}

OPEN == "Open"
SAVED == "Saved"
FROZEN == "Frozen"
SUBMITTED == "Submitted"

\* Cart.editable_statuses
editable_statuses == {OPEN, SAVED}

\* the same with the status names defined in the class body
CartAttributesWithStatusNames ==
    {"editable_statuses", "status", "owner", "date_submitted",
     "OPEN", "SAVED", "FROZEN", "SUBMITTED"}

\* the names a Cart instance resolves as attributes, among those its methods
\* read: the class body defines editable_statuses and the fields, while OPEN,
\* MERGED, SAVED, FROZEN and SUBMITTED are names of the module, not of Cart
CartAttributes == {"editable_statuses", "status", "owner", "date_submitted"}

\* Product.price
price(p) == IF p = 1 THEN 500 ELSE IF p = 2 THEN 300 ELSE 100 * p

\* CartProduct.quantity default
DefaultQuantity == 1

NoInst == [id |-> 0, status |-> "none", loaded |-> "none", rows |-> EmptyBag]

NoCall == [op |-> "none", user |-> 0, cart |-> 0, product |-> 0, quantity |-> 0,
           ret |-> 0, created |-> FALSE, err |-> "none"]

Call(op, u, c, p, q, ret, created, err) ==
    [op |-> op, user |-> u, cart |-> c, product |-> p, quantity |-> q,
     ret |-> ret, created |-> created, err |-> err]

\* Cart.__init__ on a row read from the table: _products = None
cart_instance(cs, c) ==
    [id |-> c, status |-> cs[c].status, loaded |-> "none", rows |-> EmptyBag]

\* the rows Cart.objects.get(owner=u, status=st) matches
carts_found(cs, u, st) == {c \in DOMAIN cs : cs[c].owner = u /\ cs[c].status = st}

\* a plausible slip: get_or_create that never looks up and always inserts
cart_get_or_create_always_insert(cs, u, st) ==
    [carts |-> Append(cs, [owner |-> u, status |-> st]),
     id |-> Len(cs) + 1, created |-> TRUE, err |-> "none"]

\* Cart.objects.get_or_create(owner=u, status=st) run without interruption
cart_get_or_create(cs, u, st) ==
    LET found == carts_found(cs, u, st)
    IN  IF found = {}
        THEN [carts |-> Append(cs, [owner |-> u, status |-> st]),
              id |-> Len(cs) + 1, created |-> TRUE, err |-> "none"]
        ELSE IF Cardinality(found) = 1
        THEN [carts |-> cs, id |-> CHOOSE c \in found : TRUE,
              created |-> FALSE, err |-> "none"]
        ELSE [carts |-> cs, id |-> 0, created |-> FALSE,
              err |-> "MultipleObjectsReturned"]

\* a plausible slip: can_be_edited that lets every status through
can_be_edited_any(ci) == TRUE

\* Cart.can_be_edited, on the instance in memory
can_be_edited(ci) == ci.status \in editable_statuses

\* the rows of a cart in the table (self.products), as a bag of rows
cart_rows(ls, c) ==
    LET S == {l \in BagToSet(ls) : l.cart = c}
    IN  [l \in S |-> ls[l]]

\* the rows for one product of a cart
product_rows(ls, c, p) ==
    LET S == {l \in BagToSet(ls) : l.cart = c /\ l.product = p}
    IN  [l \in S |-> ls[l]]

Row(c, p, q) == [cart |-> c, product |-> p, quantity |-> q]

\* a plausible slip: CartProduct without the unique_together constraint
unique_together_off(ls, c, p) == TRUE

\* unique_together = ("cart", "product") of CartProduct.Meta: whether the
\* table accepts the insert of a row for (c, p)
unique_together_ok(ls, c, p) == product_rows(ls, c, p) = EmptyBag

\* a plausible slip: add_product that adds to the stored quantity
new_quantity_additive(old, q) == old + q

\* add_product on an existing line: entry.quantity = quantity
new_quantity(old, q) == q

\* a plausible variant: get_or_create(..., defaults={"quantity": quantity})
created_quantity_requested(q) == q

\* the quantity of a line that get_or_create(cart=self, product=product)
\* creates: the requested quantity q is not passed, the field default applies
created_quantity(q) == DefaultQuantity

\* Cart.add_product(product, quantity) run without interruption, on the
\* instance ci: the lines afterwards, whether a line was created, the error
add_product(ls, ci, p, q) ==
    LET found == product_rows(ls, ci.id, p)
    IN  IF found = EmptyBag
        THEN \* get_or_create creates the line; CartProduct.save guards it
             IF ~can_be_edited(ci)
             THEN [lines |-> ls, created |-> FALSE, err |-> "PermissionDenied"]
             ELSE [lines |-> ls (+) SetToBag({Row(ci.id, p, created_quantity(q))}),
                   created |-> TRUE, err |-> "none"]
        ELSE IF BagCardinality(found) > 1
        THEN [lines |-> ls, created |-> FALSE, err |-> "MultipleObjectsReturned"]
        ELSE \* not created: entry.quantity = quantity; entry.save()
             LET entry == CHOOSE l \in BagToSet(found) : TRUE
             IN  IF ~can_be_edited(ci)
                 THEN [lines |-> ls, created |-> FALSE, err |-> "PermissionDenied"]
                 ELSE [lines |-> (ls (-) SetToBag({entry})) (+)
                                 SetToBag({Row(ci.id, p,
                                     new_quantity(entry.quantity, q))}),
                       created |-> FALSE, err |-> "none"]

\* a plausible slip: the line price without the quantity
line_price_unit(l) == price(l.product)

\* CartProduct.price
line_price(l) == price(l.product) * l.quantity

\* sum([product.price for product in rows])
RECURSIVE sum_prices(_)
sum_prices(rows) ==
    IF rows = EmptyBag THEN 0
    ELSE LET l == CHOOSE x \in BagToSet(rows) : TRUE
         IN  line_price(l) + sum_prices(rows (-) SetToBag({l}))

\* the call just completed becomes `last`; `prev` keeps of the call before it
\* <<"add_product", cart, product>> when it was an add_product that raised
\* nothing, <<op, user, cart returned>> when it was an access of user.cart or
\* user.wish_list
Record(call) ==
    /\ last' = call
    /\ prev' = IF last.op = "add_product" /\ last.err = "none"
               THEN <<last.op, last.cart, last.product>>
               ELSE IF last.op \in {"cart", "wish_list"}
               THEN <<last.op, last.user, last.ret>>
               ELSE <<"none", 0, 0>>
    /\ UNCHANGED <<catVars, reqs, started>>

\* user.cart: get_or_create(owner=self, status=OPEN)
UserCart(u) ==
    LET r == cart_get_or_create(carts, u, OPEN)
    IN  /\ Len(r.carts) <= MaxCarts
        /\ carts' = r.carts
        /\ Record(Call("cart", u, r.id, 0, 0, r.id, r.created, r.err))
        /\ UNCHANGED <<lines, orders>>

\* user.wish_list: get_or_create(owner=self, status=SAVED)
UserWishList(u) ==
    LET r == cart_get_or_create(carts, u, SAVED)
    IN  /\ Len(r.carts) <= MaxCarts
        /\ carts' = r.carts
        /\ Record(Call("wish_list", u, r.id, 0, 0, r.id, r.created, r.err))
        /\ UNCHANGED <<lines, orders>>

\* Cart.add_product on the instance ci
AddProduct(ci, p, q) ==
    /\ LET r == add_product(lines, ci, p, q)
       IN  /\ BagCardinality(r.lines) <= MaxLines
           /\ lines' = r.lines
           /\ Record(Call("add_product", 0, ci.id, p, q, 0, r.created, r.err))
    /\ UNCHANGED <<carts, orders>>

\* Cart.flush() on the instance ci
Flush(ci) ==
    IF "FROZEN" \notin CartAttributes
    THEN /\ Record(Call("flush", 0, ci.id, 0, 0, 0, FALSE, "AttributeError"))
         /\ UNCHANGED dbVars
    ELSE IF ci.status = FROZEN
    THEN /\ Record(Call("flush", 0, ci.id, 0, 0, 0, FALSE, "PermissionDenied"))
         /\ UNCHANGED dbVars
    ELSE /\ lines' = lines (-) cart_rows(lines, ci.id)
         /\ Record(Call("flush", 0, ci.id, 0, 0, 0, FALSE, "none"))
         /\ UNCHANGED <<carts, orders>>

\* a plausible variant: the status names resolve, as they would were they
\* attributes of the class
SetStatusResolved(ci, op, name, st) ==
    /\ carts' = [carts EXCEPT ![ci.id].status = st]
    /\ Record(Call(op, 0, ci.id, 0, 0, 0, FALSE, "none"))
    /\ UNCHANGED <<lines, orders>>

\* Cart.freeze / Cart.thaw / Cart.submit on the instance ci:
\* self.status = self.<NAME>; self.save()
SetStatus(ci, op, name, st) ==
    IF name \notin CartAttributes
    THEN /\ Record(Call(op, 0, ci.id, 0, 0, 0, FALSE, "AttributeError"))
         /\ UNCHANGED dbVars
    ELSE /\ carts' = [carts EXCEPT ![ci.id].status = st]
         /\ Record(Call(op, 0, ci.id, 0, 0, 0, FALSE, "none"))
         /\ UNCHANGED <<lines, orders>>

Freeze(ci) == SetStatus(ci, "freeze", "FROZEN", FROZEN)

Thaw(ci) == SetStatus(ci, "thaw", "OPEN", OPEN)

Submit(ci) == SetStatus(ci, "submit", "SUBMITTED", SUBMITTED)

\* the add_to_cart view, one request run to completion
AddToCart(u, p, q) ==
    LET g == cart_get_or_create(carts, u, OPEN)
    IN  /\ Len(g.carts) <= MaxCarts
        /\ carts' = g.carts
        /\ IF g.err # "none"
           THEN /\ Record(Call("add_to_cart", u, 0, 0, 0, 0, FALSE, g.err))
                /\ UNCHANGED <<lines, orders>>
           ELSE LET r == add_product(lines, cart_instance(g.carts, g.id), p, q)
                IN  /\ BagCardinality(r.lines) <= MaxLines
                    /\ lines' = r.lines
                    /\ Record(Call("add_to_cart", u, 0, 0, 0, 0, FALSE, r.err))
                    /\ UNCHANGED orders

\* the add_to_wishlist view: wish_list.add_product(product)
AddToWishlist(u, p) ==
    LET g == cart_get_or_create(carts, u, SAVED)
    IN  /\ Len(g.carts) <= MaxCarts
        /\ carts' = g.carts
        /\ IF g.err # "none"
           THEN /\ Record(Call("add_to_wishlist", u, 0, 0, 0, 0, FALSE, g.err))
                /\ UNCHANGED <<lines, orders>>
           ELSE LET r == add_product(lines, cart_instance(g.carts, g.id), p, 1)
                IN  /\ BagCardinality(r.lines) <= MaxLines
                    /\ lines' = r.lines
                    /\ Record(Call("add_to_wishlist", u, 0, 0, 0, 0, FALSE, r.err))
                    /\ UNCHANGED orders

\* the outcomes of razorpay_client.payment.capture
CaptureOutcomes == {"captured", "BadRequestError", "OtherError"}

\* Order.objects.create(customer=..., cart=...). The Order model is not among
\* the sources: as the design describes it, an order is a row (customer, cart)
\* and a customer may have several, so the insert succeeds.
order_create(os, u, c) == os (+) SetToBag({[customer |-> u, cart |-> c]})

\* a plausible variant: every error of the capture call is swallowed
CachePaymentCatchAll(u, outcome) ==
    LET g == cart_get_or_create(carts, u, OPEN)
    IN  /\ Len(g.carts) <= MaxCarts
        /\ IF g.err # "none"
           THEN /\ carts' = g.carts
                /\ orders' = orders
                /\ Record(Call("cache_payment", u, 0, 0, 0, 0, FALSE, g.err)
                             @@ [capture |-> outcome])
           ELSE /\ orders' = order_create(orders, u, g.id)
                /\ carts' = [g.carts EXCEPT ![g.id].status = FROZEN]
                /\ Record(Call("cache_payment", u, g.id, 0, 0, 0, FALSE, "none")
                             @@ [capture |-> outcome])
        /\ UNCHANGED lines

\* the cache_payment view, one request run to completion; the call recorded
\* carries the outcome of the capture call
CachePayment(u, outcome) ==
    IF outcome = "OtherError"
    THEN \* only BadRequestError is caught: the request ends with the error
         /\ Record(Call("cache_payment", u, 0, 0, 0, 0, FALSE, outcome)
                      @@ [capture |-> outcome])
         /\ UNCHANGED dbVars
    ELSE LET g == cart_get_or_create(carts, u, OPEN)
         IN  /\ Len(g.carts) <= MaxCarts
             /\ IF g.err # "none"
                THEN /\ carts' = g.carts
                     /\ orders' = orders
                     /\ Record(Call("cache_payment", u, 0, 0, 0, 0, FALSE, g.err)
                                  @@ [capture |-> outcome])
                ELSE /\ orders' = order_create(orders, u, g.id)
                     /\ carts' = [g.carts EXCEPT ![g.id].status = FROZEN]
                     /\ Record(Call("cache_payment", u, g.id, 0, 0, 0, FALSE, "none")
                                  @@ [capture |-> outcome])
             /\ UNCHANGED lines

\* the instance after Cart.flush(): _products = None once the rows are deleted
flush_instance(ci) ==
    IF "FROZEN" \notin CartAttributes \/ ci.status = FROZEN
    THEN ci
    ELSE [ci EXCEPT !.loaded = "none", !.rows = EmptyBag]

\* a plausible slip: all_products() without the `if self._products is None`
\* test builds a new queryset on every call
AllProductsRebuilt ==
    /\ inst.id # 0
    /\ inst' = [inst EXCEPT !.loaded = "lazy", !.rows = EmptyBag]
    /\ Record(Call("all_products", 0, inst.id, 0, 0, 0, FALSE, "none"))
    /\ UNCHANGED dbVars

\* Cart.all_products(): the queryset is built once and kept in _products;
\* building it runs no query
AllProducts ==
    /\ inst.id # 0
    /\ inst' = IF inst.loaded = "none" THEN [inst EXCEPT !.loaded = "lazy"] ELSE inst
    /\ Record(Call("all_products", 0, inst.id, 0, 0, 0, FALSE, "none"))
    /\ UNCHANGED dbVars

\* the rows that iterating self.all_products() yields: the first iteration runs
\* the query and the queryset keeps its result
products_iterated(ci, ls) ==
    IF ci.loaded = "fetched" THEN ci.rows ELSE cart_rows(ls, ci.id)

\* Cart.total_price: sum of product.price over the iterated all_products();
\* `created` records that this call ran the query
TotalPrice ==
    /\ inst.id # 0
    /\ LET rows == products_iterated(inst, lines)
       IN  /\ inst' = [inst EXCEPT !.loaded = "fetched", !.rows = rows]
           /\ Record(Call("total_price", 0, inst.id, 0, 0, sum_prices(rows),
                          inst.loaded # "fetched", "none"))
    /\ UNCHANGED dbVars

\* a caller takes user.cart or user.wish_list and keeps the instance
HoldCart(u) ==
    /\ UserCart(u)
    /\ inst' = IF last'.err = "none" THEN cart_instance(carts', last'.ret) ELSE NoInst

HoldWishList(u) ==
    /\ UserWishList(u)
    /\ inst' = IF last'.err = "none" THEN cart_instance(carts', last'.ret) ELSE NoInst

\* calls on the instance the caller holds
PriceNext ==
    \/ \E u \in Users : HoldCart(u)
    \/ \E u \in Users : HoldWishList(u)
    \/ \E p \in Products, q \in Quantities :
          inst.id # 0 /\ AddProduct(inst, p, q) /\ UNCHANGED inst
    \/ AllProducts
    \/ TotalPrice
    \/ inst.id # 0 /\ Flush(inst) /\ inst' = flush_instance(inst)

(***************************************************************************)
(* Requests of one user served concurrently: each step below is one        *)
(* statement of a view that reads or writes the tables                     *)
(***************************************************************************)
MaxRequests == 3

Requests == {1, 2}

Idle == [kind |-> "none", user |-> 0, pc |-> "idle", cart |-> 0, status |-> "none",
         product |-> 0, quantity |-> 0, lost |-> FALSE, err |-> "none"]

\* the request in slot r ends: only its outcome is kept
Done(r, err) == [kind |-> reqs[r].kind, user |-> reqs[r].user, pc |-> "done",
                 cart |-> reqs[r].cart, status |-> "none",
                 product |-> reqs[r].product, quantity |-> reqs[r].quantity,
                 lost |-> reqs[r].lost, err |-> err]

ConcFrame == UNCHANGED <<catVars, seqVars>>

\* a request arrives: add_to_cart, cache_payment or cart_view
Start(r, kind, u, p, q) ==
    /\ reqs[r].pc \in {"idle", "done"}
    /\ started < MaxRequests
    /\ started' = started + 1
    /\ reqs' = [reqs EXCEPT ![r] = [Idle EXCEPT !.kind = kind, !.user = u,
                                    !.pc = "get_cart", !.product = p,
                                    !.quantity = q]]
    /\ UNCHANGED dbVars
    /\ ConcFrame

\* cache_payment when payment.capture raises an error other than
\* BadRequestError: the view ends there
StartCaptureFails(r, u) ==
    /\ reqs[r].pc \in {"idle", "done"}
    /\ started < MaxRequests
    /\ started' = started + 1
    /\ reqs' = [reqs EXCEPT ![r] = [Idle EXCEPT !.kind = "cache_payment", !.user = u,
                                    !.pc = "done", !.err = "OtherError"]]
    /\ UNCHANGED dbVars
    /\ ConcFrame

\* the statement after request.user.cart, per view
after_cart(kind) ==
    IF kind = "add_to_cart" THEN "get_line"
    ELSE IF kind = "cache_payment" THEN "create_order"
    ELSE "done"

\* Cart.Meta declares no unique_together: the insert of a second
\* (owner, status) row is accepted
cart_insert_ok(cs, u, st) == TRUE

\* get_or_create of user.cart, the lookup: Cart.objects.get(owner, status=OPEN)
GetCart(r) ==
    /\ reqs[r].pc = "get_cart"
    /\ LET found == carts_found(carts, reqs[r].user, OPEN)
       IN  reqs' = [reqs EXCEPT ![r] =
              IF found = {} THEN [reqs[r] EXCEPT !.pc = "create_cart"]
              ELSE IF Cardinality(found) > 1
              THEN Done(r, "MultipleObjectsReturned")
              ELSE LET c == CHOOSE x \in found : TRUE
                   IN  [reqs[r] EXCEPT !.cart = c, !.status = carts[c].status,
                                 !.pc = after_cart(reqs[r].kind)]]
    /\ UNCHANGED <<dbVars, started>>
    /\ ConcFrame

\* get_or_create of user.cart, the insert after a lookup that found nothing
CreateCart(r) ==
    /\ reqs[r].pc = "create_cart"
    /\ Len(carts) < MaxCarts
    /\ IF cart_insert_ok(carts, reqs[r].user, OPEN)
       THEN /\ carts' = Append(carts, [owner |-> reqs[r].user, status |-> OPEN])
            /\ reqs' = [reqs EXCEPT ![r] = [reqs[r] EXCEPT !.cart = Len(carts) + 1,
                                               !.status = OPEN,
                                               !.pc = after_cart(reqs[r].kind)]]
       ELSE \* IntegrityError: get_or_create looks the row up again
            /\ carts' = carts
            /\ reqs' = [reqs EXCEPT ![r] = [reqs[r] EXCEPT !.pc = "get_cart"]]
    /\ UNCHANGED <<lines, orders, started>>
    /\ ConcFrame

\* the instance a running request holds
held(r) == [id |-> reqs[r].cart, status |-> reqs[r].status,
            loaded |-> "none", rows |-> EmptyBag]

\* add_product, the lookup of self.products.get_or_create(cart, product)
GetLine(r) ==
    /\ reqs[r].pc = "get_line"
    /\ LET n == BagCardinality(product_rows(lines, reqs[r].cart, reqs[r].product))
       IN  reqs' = [reqs EXCEPT ![r] =
              IF n = 0 THEN [reqs[r] EXCEPT !.pc = "create_line"]
              ELSE IF n > 1 THEN Done(r, "MultipleObjectsReturned")
              ELSE [reqs[r] EXCEPT !.pc = "save_line"]]
    /\ UNCHANGED <<dbVars, started>>
    /\ ConcFrame

\* add_product, the insert of get_or_create: CartProduct.save guards it, and
\* an IntegrityError of the insert is answered by looking the row up again
CreateLine(r) ==
    /\ reqs[r].pc = "create_line"
    /\ IF ~can_be_edited(held(r))
       THEN /\ reqs' = [reqs EXCEPT ![r] = Done(r, "PermissionDenied")]
            /\ lines' = lines
       ELSE IF unique_together_ok(lines, reqs[r].cart, reqs[r].product)
       THEN /\ BagCardinality(lines) < MaxLines
            /\ lines' = lines (+) SetToBag({Row(reqs[r].cart, reqs[r].product,
                                                DefaultQuantity)})
            /\ reqs' = [reqs EXCEPT ![r] = Done(r, "none")]
       ELSE /\ lines' = lines
            /\ reqs' = [reqs EXCEPT ![r] = [reqs[r] EXCEPT !.lost = TRUE,
                                               !.pc = "save_line"]]
    /\ UNCHANGED <<carts, orders, started>>
    /\ ConcFrame

\* add_product on a line that was not created: entry.quantity = quantity;
\* entry.save(), an UPDATE of the row by its key
SaveLine(r) ==
    /\ reqs[r].pc = "save_line"
    /\ IF ~can_be_edited(held(r))
       THEN /\ reqs' = [reqs EXCEPT ![r] = Done(r, "PermissionDenied")]
            /\ lines' = lines
       ELSE LET found == product_rows(lines, reqs[r].cart, reqs[r].product)
                entry == CHOOSE l \in BagToSet(found) : TRUE
            IN  /\ lines' = (lines (-) SetToBag({entry})) (+)
                            SetToBag({Row(entry.cart, entry.product,
                                          new_quantity(entry.quantity,
                                                       reqs[r].quantity))})
                /\ reqs' = [reqs EXCEPT ![r] = Done(r, "none")]
    /\ UNCHANGED <<carts, orders, started>>
    /\ ConcFrame

\* cache_payment: Order.objects.create(customer=request.user, cart=cart)
CreateOrder(r) ==
    /\ reqs[r].pc = "create_order"
    /\ orders' = order_create(orders, reqs[r].user, reqs[r].cart)
    /\ reqs' = [reqs EXCEPT ![r] = [reqs[r] EXCEPT !.pc = "freeze"]]
    /\ UNCHANGED <<carts, lines, started>>
    /\ ConcFrame

\* cache_payment: cart.status = constants.FROZEN; cart.save(). constants.FROZEN
\* is read as the FROZEN of shop/models.py.
FreezeSave(r) ==
    /\ reqs[r].pc = "freeze"
    /\ carts' = [carts EXCEPT ![reqs[r].cart] =
                    [owner |-> reqs[r].user, status |-> FROZEN]]
    /\ reqs' = [reqs EXCEPT ![r] = Done(r, "none")]
    /\ UNCHANGED <<lines, orders, started>>
    /\ ConcFrame

ConcNext ==
    \/ \E r \in Requests, u \in Users, p \in Products, q \in Quantities :
          Start(r, "add_to_cart", u, p, q)
    \/ \E r \in Requests, u \in Users : Start(r, "cache_payment", u, 0, 0)
    \/ \E r \in Requests, u \in Users : StartCaptureFails(r, u)
    \/ \E r \in Requests, u \in Users : Start(r, "cart_view", u, 0, 0)
    \/ \E r \in Requests : GetCart(r)
    \/ \E r \in Requests : CreateCart(r)
    \/ \E r \in Requests : GetLine(r)
    \/ \E r \in Requests : CreateLine(r)
    \/ \E r \in Requests : SaveLine(r)
    \/ \E r \in Requests : CreateOrder(r)
    \/ \E r \in Requests : FreezeSave(r)

CartInit0 ==
    /\ carts = <<>>
    /\ lines = EmptyBag
    /\ orders = EmptyBag
    /\ inst = NoInst
    /\ last = NoCall
    /\ prev = <<"none", 0, 0>>
    /\ reqs = [r \in Requests |-> Idle]
    /\ started = 0

\* one call or request at a time: the instance a call is made on is the one
\* just read from the table
CartNext ==
    \/ \E u \in Users : UserCart(u) /\ UNCHANGED inst
    \/ \E u \in Users : UserWishList(u) /\ UNCHANGED inst
    \/ \E c \in DOMAIN carts, p \in Products, q \in Quantities :
          AddProduct(cart_instance(carts, c), p, q) /\ UNCHANGED inst
    \/ \E c \in DOMAIN carts : Flush(cart_instance(carts, c)) /\ UNCHANGED inst
    \/ \E c \in DOMAIN carts : Freeze(cart_instance(carts, c)) /\ UNCHANGED inst
    \/ \E c \in DOMAIN carts : Thaw(cart_instance(carts, c)) /\ UNCHANGED inst
    \/ \E c \in DOMAIN carts : Submit(cart_instance(carts, c)) /\ UNCHANGED inst
    \/ \E u \in Users, p \in Products, q \in Quantities :
          AddToCart(u, p, q) /\ UNCHANGED inst
    \/ \E u \in Users, p \in Products : AddToWishlist(u, p) /\ UNCHANGED inst
    \/ \E u \in Users, o \in CaptureOutcomes : CachePayment(u, o) /\ UNCHANGED inst

(***************************************************************************)
(* Specifications                                                          *)
(***************************************************************************)
\* nothing in progress in the views outside category and cart
ViewIdle ==
    /\ idel = NoDelete
    /\ iseen = NoSeen
    /\ ProductIdle
    /\ AddressIdle

CatIdle ==
    /\ cparent = [n \in Nodes |-> 0]
    /\ is_public = [n \in Nodes |-> TRUE]
    /\ ancestors_are_public = [n \in Nodes |-> TRUE]
    /\ pending = 0
    /\ clast = [op |-> "none", node |-> 0, value |-> TRUE]

CatInit == CatInit0 /\ SlugIdle /\ ImgIdle /\ ViewIdle /\ CartInit0

\* the category tree alone
SpecCat == CatInit /\ [][CatNext]_vars

CartInit == CatIdle /\ SlugIdle /\ ImgIdle /\ ViewIdle /\ CartInit0

\* the cart engine, one call or request at a time
SpecCart == CartInit /\ [][CartNext]_vars

\* a caller working on one Cart instance
SpecPrice == CartInit /\ [][PriceNext]_vars

\* requests served concurrently
SpecConc == CartInit /\ [][ConcNext]_vars

FixInit == FixInit0 /\ SlugIdle /\ ImgIdle /\ ViewIdle /\ CartInit0

\* fix_tree run on stored trees
SpecFix == FixInit /\ [][FixNext]_vars

SlugInit == CatInit0 /\ SlugInit0 /\ ImgIdle /\ ViewIdle /\ CartInit0

\* full_slug reads over any forest
SpecSlug == SlugInit /\ [][SlugNext]_vars

ImgInit == CatIdle /\ SlugIdle /\ ImgIdle /\ ViewIdle /\ CartInit0

\* image insertions and deletions
SpecImg == ImgInit /\ [][ImgNext]_vars

\* product lookups
SpecProd == CartInit /\ [][ProductNext]_vars

\* address requests of several users
SpecAddr == CartInit /\ [][AddressNext]_vars

\* image deletions step by step, with readers in between
SpecImgConc == CartInit /\ [][ImgConcNext]_vars

\* forests whose trees are chains: a node is a root or the child of the
\* node inserted before it
ChainShapes == {f \in TreeShapes : \A n \in Nodes : f[n] \in {0, n - 1}}

StaleInit == CatInit /\ cparent \in ChainShapes

\* slugs read and changed, with the other category operations
SpecStale == StaleInit /\ [][StaleNext]_vars

\* ---- properties of the category tree ----
RECURSIVE strict_ancestors(_)
strict_ancestors(n) ==
    IF cparent[n] = 0 THEN {}
    ELSE {cparent[n]} \cup strict_ancestors(cparent[n])

FlagMatches(d) ==
    ancestors_are_public[d] = (\A a \in strict_ancestors(d) : is_public[a])

\* C1: after every toggle of a node n that was followed by
\* n.set_ancestors_are_public(), every node's ancestors_are_public is TRUE
\* exactly when none of its strict ancestors is non-public; roots are TRUE.
C1_FlagsFollowAncestors ==
    pending = 0 =>
        /\ \A d \in Nodes : FlagMatches(d)
        /\ \A r \in Nodes : cparent[r] = 0 => ancestors_are_public[r]

\* a root was toggled non-public and recomputed: its child's flag is FALSE
C1_Witness ==
    /\ pending = 0
    /\ clast.op = "set_ancestors_are_public"
    /\ \E r, c \in Nodes :
          /\ cparent[r] = 0 /\ cparent[c] = r
          /\ clast.node = r
          /\ ~is_public[r] /\ is_public[c]
          /\ ~ancestors_are_public[c] /\ ancestors_are_public[r]

\* C2: after a completed Category.save() that changed is_public, no
\* descendant of a non-public node still has ancestors_are_public = TRUE.
C2_SaveRecomputes ==
    clast.op = "save" =>
        \A d \in Nodes :
            (\E a \in strict_ancestors(d) : ~is_public[a])
                => ~ancestors_are_public[d]

\* ---- properties of the cart engine ----
lines_of(c, p) == BagCardinality(product_rows(lines, c, p))

\* C3: on an Open cart, add_product(p, q1) followed by add_product(p, q2)
\* leaves exactly one line for p, with quantity q2.
C3_OverwriteQuantity ==
    (/\ last.op = "add_product"
     /\ prev = <<"add_product", last.cart, last.product>>
     /\ carts[last.cart].status = OPEN)
    => /\ last.err = "none"
       /\ lines_of(last.cart, last.product) = 1
       /\ \A l \in BagToSet(product_rows(lines, last.cart, last.product)) :
              l.quantity = last.quantity

C3_Witness ==
    /\ last.op = "add_product" /\ last.err = "none" /\ last.quantity = 2
    /\ prev = <<"add_product", last.cart, last.product>>
    /\ carts[last.cart].status = OPEN
    /\ Row(last.cart, last.product, 2) \in BagToSet(lines)

\* C4: add_product on a cart that is Frozen or Submitted fails with
\* PermissionDenied, whether or not the product has a line, and leaves the
\* lines as they were.
C4_FrozenAddDenied ==
    [][(/\ last'.op = "add_product"
        /\ carts[last'.cart].status \notin {OPEN, SAVED})
       => (last'.err = "PermissionDenied" /\ lines' = lines)]_vars

C4_Witness ==
    /\ last.op = "add_product" /\ last.err = "PermissionDenied"
    /\ carts[last.cart].status = FROZEN
    /\ lines_of(last.cart, last.product) = 1
    /\ \E p \in Products : lines_of(last.cart, p) = 0

\* C6: two successive accesses of user.cart (user.wish_list) by one user
\* return the same cart, and the second creates none.
C6_SameCartTwice ==
    (/\ last.op \in {"cart", "wish_list"}
     /\ prev[1] = last.op /\ prev[2] = last.user)
    => /\ last.err = "none"
       /\ last.ret = prev[3]
       /\ ~last.created

C6_Witness ==
    /\ last.op = "wish_list" /\ ~last.created /\ last.ret # 0
    /\ prev = <<"wish_list", last.user, last.ret>>
    /\ \E c \in DOMAIN carts : c # last.ret /\ carts[c].owner = last.user

carts_of(u, st) == {c \in DOMAIN carts : carts[c].owner = u /\ carts[c].status = st}

StatusEdges ==
    {<<OPEN, FROZEN>>, <<SAVED, FROZEN>>, <<FROZEN, SUBMITTED>>, <<FROZEN, OPEN>>}

C12_FlushByStatus ==
    last.op = "flush" =>
        /\ carts[last.cart].status \in {OPEN, SAVED}
              => (last.err = "none" /\ cart_rows(lines, last.cart) = EmptyBag)
        /\ carts[last.cart].status = FROZEN => last.err = "PermissionDenied"

\* C13: freeze, thaw and submit complete and leave the cart's stored status
\* Frozen, Open and Submitted respectively.
C13_TransitionsComplete ==
    /\ last.op = "freeze" => (last.err = "none" /\ carts[last.cart].status = FROZEN)
    /\ last.op = "thaw" => (last.err = "none" /\ carts[last.cart].status = OPEN)
    /\ last.op = "submit"
          => (last.err = "none" /\ carts[last.cart].status = SUBMITTED)

\* the sum of price * quantity over the rows of cart c in the table
RECURSIVE stored_total(_)
stored_total(rows) ==
    IF rows = EmptyBag THEN 0
    ELSE LET l == CHOOSE x \in BagToSet(rows) : TRUE
         IN  price(l.product) * l.quantity * rows[l]
             + stored_total([x \in BagToSet(rows) \ {l} |-> rows[x]])

\* C10 as stated: total_price is the sum over the lines stored for the cart
\* at that point, also after an earlier read on the same instance.
C10_TotalIsStoredSum ==
    last.op = "total_price" => last.ret = stored_total(cart_rows(lines, last.cart))

\* C10 as amended: total_price is the sum over the lines the instance's
\* queryset holds, which are the stored lines when this call is the first to
\* iterate them on the instance.
C10_TotalIsSnapshotSum ==
    last.op = "total_price" =>
        /\ last.ret = stored_total(inst.rows)
        /\ last.created => last.ret = stored_total(cart_rows(lines, last.cart))

\* lines (500, 2) and (300, 1) give 1300
C10_Witness ==
    /\ last.op = "total_price" /\ last.created /\ last.ret = 1300
    /\ Row(last.cart, 1, 2) \in BagToSet(lines)
    /\ Row(last.cart, 2, 1) \in BagToSet(lines)

\* ---- properties of concurrent requests ----
\* C5: in every step that changes the lines of a cart, the stored status of
\* that cart is Open or Saved.
C5_LinesChangeOnlyWhileEditable ==
    [][\A c \in DOMAIN carts :
          cart_rows(lines', c) # cart_rows(lines, c)
              => carts[c].status \in {OPEN, SAVED}]_vars

\* C7: at most one Open cart per owner exists, whatever the interleaving of
\* two first accesses of user.cart.
C7_OneOpenCartPerOwner ==
    \A u \in Users : Cardinality(carts_found(carts, u, OPEN)) <= 1

\* C9: at most one line exists per (cart, product), and an add_product that
\* lost the insert race ends as an update, without an integrity error.
C9_OneLinePerProduct ==
    /\ \A c \in DOMAIN carts, p \in Products : lines_of(c, p) <= 1
    /\ \A r \in Requests :
          (reqs[r].pc = "done" /\ reqs[r].lost) =>
              /\ reqs[r].err = "none"
              /\ lines_of(reqs[r].cart, reqs[r].product) = 1

\* a request lost the insert race and updated the line the winner created
C9_Witness ==
    \E r \in Requests :
        /\ reqs[r].pc = "done" /\ reqs[r].lost /\ reqs[r].err = "none"
        /\ reqs[r].quantity = 2
        /\ lines_of(reqs[r].cart, reqs[r].product) = 1
        /\ Row(reqs[r].cart, reqs[r].product, 2) \in BagToSet(lines)

\* the number of orders that reference cart c
orders_of(c) ==
    BagCardinality([o \in {x \in BagToSet(orders) : x.cart = c} |-> orders[o]])

\* C14: once an Order references a cart, no step changes the lines of that
\* cart, whatever the interleaving of add_to_cart with cache_payment.
C14_OrderedCartImmutable ==
    [][\A c \in DOMAIN carts :
          orders_of(c) > 0 => cart_rows(lines', c) = cart_rows(lines, c)]_vars

\* C15: every Frozen cart is referenced by exactly one Order and no cart is
\* referenced by two Orders.
C15_OneOrderPerFrozenCart ==
    \A c \in DOMAIN carts :
        /\ orders_of(c) <= 1
        /\ carts[c].status = FROZEN => orders_of(c) = 1

\* C17: in every step that creates an Order, the Order's cart has stored
\* status Frozen and is owned by the Order's customer.
C17_OrderOnlyForFrozenCart ==
    [][\A o \in BagToSet(orders') :
          CopiesIn(o, orders') > CopiesIn(o, orders)
              => /\ carts'[o.cart].status = FROZEN
                 /\ carts'[o.cart].owner = o.customer]_vars

C18_FixTreeRestoresFlags ==
    clast.op = "fix_tree" =>
        /\ \A r \in get_root_nodes : ancestors_are_public[r]
        /\ \A d \in Nodes : FlagMatches(d)

\* the slugs along the path pth (root first), joined by "/"
RECURSIVE slugs_joined(_)
slugs_joined(pth) ==
    IF Len(pth) = 1 THEN <<slug[pth[1]]>>
    ELSE slugs_joined(SubSeq(pth, 1, Len(pth) - 1)) \o <<"/", slug[pth[Len(pth)]]>>

\* C19: read with an empty cache, full_slug of a node is the slugs of its
\* ancestors from the root down followed by its own, joined by "/"; for a
\* root it is the node's own slug, whatever the cache holds.
C19_FullSlugJoinsAncestors ==
    sres.op = "full_slug" =>
        /\ sres.cold => sres.value = slugs_joined(path(sres.node))
        /\ is_root(sres.node) => sres.value = <<slug[sres.node]>>

\* root a / child b / grandchild c gives a/b/c
C19_Witness ==
    /\ sres.op = "full_slug" /\ sres.cold
    /\ sres.value = <<"a", "/", "b", "/", "c">>
    /\ depth(sres.node) = 3

\* the display_order values of the stored images of product p
display_orders(p) == {images[i].display_order : i \in product_images(images, p)}

GapFree(p) == display_orders(p) = 0..(Cardinality(product_images(images, p)) - 1)

\* C20 as stated: at all times the images of every product carry exactly the
\* display_order values 0..n-1.
C20_AlwaysGapFree == \A p \in ImgProducts : GapFree(p)

\* C20 as amended: right after an image was deleted, the remaining images
\* of its product carry exactly the display_order values 0..n-1.
C20_GapFreeAfterDelete == ilast.op = "delete" => GapFree(ilast.product)

\* A, B, C inserted with 0, 1, 2; B deleted; C's display_order is 1
C20_Witness ==
    /\ ilast.op = "delete" /\ ilast.id = 2
    /\ Len(images) = 3
    /\ images[1] = [product |-> ilast.product, display_order |-> 0, live |-> TRUE]
    /\ images[3] = [product |-> ilast.product, display_order |-> 1, live |-> TRUE]

\* C21: product_view fails only when no product has the slug; with one or
\* more products of that slug it returns the one with the smallest id.
C21_FirstMatchBySlug ==
    pres.op = "product_view" =>
        LET found == products_with_slug(products, pres.slug)
        IN  IF found = {} THEN pres.err = "DoesNotExist"
            ELSE /\ pres.err = "none"
                 /\ pres.ret \in found
                 /\ \A j \in found : pres.ret <= j

\* C27: every step that changes or removes an address is a request of the
\* user who owns that address.
C27_OnlyOwnerChangesAddress ==
    [][\A i \in DOMAIN addresses :
          (addresses[i].live /\ addresses'[i] # addresses[i])
              => alast'.user = addresses[i].user]_vars

\* C25: a reader that lists a product's images while delete() runs on one of
\* them, the list having been 0..n-1 before, sees exactly 0..n-1.
C25_ReadersSeeGapFree ==
    (iseen.op = "read" /\ iseen.during /\ iseen.clean)
        => iseen.orders = 0..(iseen.n - 1)

\* C22: once all_products() was called on an instance, a later all_products(),
\* add_product or total_price on it keeps the queryset held in _products, and
\* once its rows were fetched they stay as fetched; add_product never resets it.
C22_CachedCollectionKept ==
    [][(/\ inst.id # 0
        /\ inst.loaded # "none"
        /\ last'.op \in {"all_products", "add_product", "total_price"})
       => /\ inst'.id = inst.id
          /\ inst'.loaded # "none"
          /\ inst.loaded = "fetched" => inst' = inst]_vars

\* all_products() returned the fetched collection although a line was added
\* to the cart since
C22_Witness ==
    /\ last.op = "all_products"
    /\ inst.loaded = "fetched"
    /\ inst.rows # cart_rows(lines, inst.id)

DistinctOrders(p) ==
    \A a, b \in product_images(images, p) :
        a # b => images[a].display_order # images[b].display_order

\* C24: delete() on an image of a product whose images carry pairwise
\* distinct display_order values removes that image only, renumbers the
\* remaining images of the product to 0..n-1 in their previous relative
\* order, and leaves the images of other products as they were.
C24_DeleteRenumbersInOrder ==
    [][(/\ ilast'.op = "delete"
        /\ ilast'.id \in DOMAIN images
        /\ images[ilast'.id].live
        /\ DistinctOrders(images[ilast'.id].product))
       => LET i == ilast'.id
              p == images[i].product
              S == product_images(images, p) \ {i}
          IN  /\ ~images'[i].live
              /\ product_images(images', p) = S
              /\ stored_orders(images', p) = 0..(Cardinality(S) - 1)
              /\ \A a, b \in S :
                    images[a].display_order < images[b].display_order
                        => images'[a].display_order < images'[b].display_order
              /\ \A j \in DOMAIN images :
                    (images[j].live /\ images[j].product # p)
                        => images'[j] = images[j]]_vars

\* images stored with 2, 0, 1; the last one deleted: the first goes to 1
\* and stays behind the second
C24_Witness ==
    /\ ilast.op = "delete" /\ ilast.id = 3
    /\ Len(images) = 3
    /\ images[1] = [product |-> ilast.product, display_order |-> 1, live |-> TRUE]
    /\ images[2] = [product |-> ilast.product, display_order |-> 0, live |-> TRUE]

\* C26: add_product(p, q) on an editable cart without a line for p adds one
\* line for p with quantity 1, whatever q is; with a line for p already
\* there, that line gets quantity q. No other line changes.
C26_NewLineGetsDefaultQuantity ==
    [][(/\ last'.op = "add_product"
        /\ carts[last'.cart].status \in editable_statuses)
       => LET c == last'.cart
              p == last'.product
              q == last'.quantity
              found == product_rows(lines, c, p)
          IN  /\ last'.err = "none"
              /\ IF found = EmptyBag
                 THEN /\ last'.created
                      /\ lines' = lines (+) SetToBag({Row(c, p, 1)})
                 ELSE /\ ~last'.created
                      /\ lines' = (lines (-) found) (+) SetToBag({Row(c, p, q)})]_vars

\* add_product(p, 2) created the line for p, and the line has quantity 1
C26_Witness ==
    /\ last.op = "add_product" /\ last.created /\ last.quantity = 2
    /\ Row(last.cart, last.product, 1) \in BagToSet(lines)
    /\ lines_of(last.cart, last.product) = 1

====
